---- MODULE Spec2Model ----
(***************************************************************************)
(* Multi-Night Stacker (src/multi_night_stacker.py) as a state machine.    *)
(*                                                                         *)
(* State: the console's fields and widgets (MultiNightStackerGUI), the     *)
(* worker thread's position and locals (SirilWorker.run executing          *)
(* process_workflow), the Siril engine's current directory, the part of    *)
(* the file system the program reads and writes, and the signals the       *)
(* worker has emitted.                                                     *)
(*                                                                         *)
(* Encoding of text.  A path is a sequence of components; a component, a   *)
(* command argument and a message are records, one record shape per        *)
(* f-string / literal of the source, so that two texts are equal exactly   *)
(* when the source would build equal strings from the modelled values.     *)
(* Spin-box values (one decimal, setDecimals(1)) are counted in tenths.    *)
(***************************************************************************)
EXTENDS Integers, Sequences, FiniteSets, TLC

\* ------------------------------------------------------------- bounds
\* set folders set1..set{MaxSet} may exist in the working directory
MaxSet == 7
\* the set folders among which every layout (present or not, with or without
\* lights and flats) is an initial state
MaxLayout == 3
\* raw light frames in a lights folder (the engine calibrates at most that many)
MaxFiles == 2
\* workflow runs the user starts in the re-run family of initial states
MaxRuns == 2

\* preset files the user saves or loads in one session
MaxPresetOps == 2
\* directory dialogs the user opens while a run may be active
MaxSelects == 2

SetIds == 1..MaxSet
FileIds == 1..MaxFiles

\* ------------------------------------------------------------- text
\* f"set{i}"  (detect_sets)
SetNames == <<"set1", "set2", "set3", "set4", "set5", "set6", "set7", "set8", "set9",
              "set10", "set11", "set12">>
SetName(i) == SetNames[i]

\* one path component that is a plain directory or file name
Dir(s) == [d |-> s]
\* the component ".." of a relative path
Up == [up |-> TRUE]
\* f"pp_light_{k:05d}.fit": a calibrated light frame written by the engine
PpLight(k) == [pp_light |-> k]
\* f"{seq_name}_{frame_counter:05d}.fit"  (combine_sequences)
LinkFile(seq, n) == [seq |-> seq, frame |-> n, ext |-> ".fit"]
\* seq_name + "_stacked"  (stack_combined's -out target, no extension)
StackedName(seq) == [seq |-> seq, suffix |-> "_stacked"]
\* f"{seq_name}_stacked.fit"  (the final result line of process_workflow)
StackedFit(seq) == [seq |-> seq, suffix |-> "_stacked", ext |-> ".fit"]

\* Path(a) / name
Join(p, c) == Append(p, c)
\* Path.parent
Parent(p) == IF Len(p) = 0 THEN p ELSE SubSeq(p, 1, Len(p) - 1)

\* the engine resolves a relative path against its current directory
RECURSIVE Resolve(_, _)
Resolve(cwd, rel) ==
    IF Len(rel) = 0 THEN cwd
    ELSE IF Head(rel) = Up THEN Resolve(Parent(cwd), Tail(rel))
    ELSE Resolve(Join(cwd, Head(rel)), Tail(rel))

\* the working directory on disk that holds the set folders
DataDir == <<Dir("data")>>
\* another directory on disk, with no set folders in it
OtherDir == <<Dir("elsewhere")>>
\* self.working_dir = None
NoDir == <<>>

\* the value of a QDoubleSpinBox with one decimal, in tenths, as str() prints it
\* (str(3.0) = "3.0", str(0.1) = "0.1", str(10.0) = "10.0")
StrFloat(t) == [whole |-> t \div 10, tenth |-> t % 10]
\* int(x) of such a value: truncation toward zero
IntOf(t) == t \div 10

\* QLineEdit.text().strip()
Strip(t) ==
    CASE t = " m31 " -> "m31"
      [] t = "  " -> ""
      [] OTHER -> t

\* datetime.now().strftime("%Y%m%d_seq")
DefaultSeqName == "20261103_seq"

\* command arguments
\* a literal word
S(s) == [s |-> s]
\* str(path) of an absolute path
P(p) == [path |-> p]
\* "../process" as the argument of cd
R(rel) == [rel |-> rel]
\* "-out=" + a relative path
Out(rel) == [opt |-> "-out", rel |-> rel]
\* f'-bias="={bias_coeff}*$OFFSET"'
Bias(n) == [opt |-> "-bias", coeff |-> n, times |-> "$OFFSET"]
\* f"r_{seq_name}"
Registered(seq) == [prefix |-> "r_", seq |-> seq]
\* str(sigma)
Num(t) == [num |-> StrFloat(t)]

\* ------------------------------------------------------------- state
VARIABLES
    \* the file system: the folders {DataDir}/set{n}, set{n}/lights, set{n}/flats,
    \* the number of raw frames in set{n}/lights, the files of set{n}/process
    \* (pp_flat_stacked.fit, pp_light_*.fit), the directories made by mkdir and
    \* the symbolic links
    set_dir, lights_dir, flats_dir, raw_lights, master_flat, pp_light, made_dirs, links,
    \* MultiNightStackerGUI: fields
    working_dir, detected_sets, worker,
    \* MultiNightStackerGUI: widgets
    start_button, seq_name_edit, bias_coeff_spin, use_flats_check, debayer_check,
    sigma_high_spin, sigma_low_spin, normalize_check, rgb_equal_check,
    \* the worker thread: its position in process_workflow and its locals
    wk,
    \* the Siril engine: its current directory, the file its last stack -out wrote
    cwd, stack_out,
    \* signals: the commands handed to the engine, the progress_update values,
    \* the finished events of the current run; finished events not yet delivered
    \* to on_processing_finished; the lines the worker has logged in the current
    \* run; the lines the last detect_sets logged
    cmds, progress, finished, finished_q, log, scan_log,
    \* combine_sequences: the symlink_to calls of the current run that returned,
    \* and the links that were there when it was entered
    linked, links_before,
    \* the runs the user may still start
    runs_left,
    \* the preset file on disk (save_preset / load_preset) and the lines the
    \* console has logged about presets
    preset_file, preset_log,
    \* the directory dialogs the user may still open while a run may be active
    selects_left

fsvars == <<set_dir, lights_dir, flats_dir, raw_lights, master_flat, pp_light, made_dirs, links>>
widgets == <<seq_name_edit, bias_coeff_spin, use_flats_check, debayer_check,
             sigma_high_spin, sigma_low_spin, normalize_check, rgb_equal_check>>
signals == <<cmds, progress, finished, finished_q, log, scan_log, linked, links_before>>
presetvars == <<preset_file, preset_log>>
vars == <<fsvars, working_dir, detected_sets, worker, start_button, widgets, wk,
          cwd, stack_out, signals, runs_left, presetvars, selects_left>>

\* no preset file has been written
NoFile == [exists |-> FALSE]

\* import sirilpy succeeded (the script is run from Siril)
SIRILPY_AVAILABLE == TRUE

\* ------------------------------------------------------------- file system
SetPath(wd, i) == Join(wd, Dir(SetName(i)))
ProcessDir(i) == Join(SetPath(DataDir, i), Dir("process"))

\* Path.exists() of a directory
DirExists(p) ==
    \/ p = DataDir
    \/ p = OtherDir
    \/ p \in made_dirs
    \/ \E i \in SetIds :
          \/ p = SetPath(DataDir, i) /\ set_dir[i]
          \/ p = Join(SetPath(DataDir, i), Dir("lights")) /\ lights_dir[i]
          \/ p = Join(SetPath(DataDir, i), Dir("flats")) /\ flats_dir[i]

\* a regular file is there
FileExists(p) ==
    \E i \in SetIds :
        \/ p = Join(ProcessDir(i), Dir("pp_flat_stacked.fit")) /\ master_flat[i]
        \/ \E k \in pp_light[i] : p = Join(ProcessDir(i), PpLight(k))

\* links is the set of symbolic links, each [link |-> its path, target |-> path]
IsLink(p) == \E l \in links : l.link = p
Target(p) == (CHOOSE l \in links : l.link = p).target

\* Path.exists(): follows a symbolic link to its target
Exists(p) ==
    IF IsLink(p) THEN FileExists(Target(p)) \/ DirExists(Target(p))
    ELSE FileExists(p) \/ DirExists(p)

\* sorted(set_process_dir.glob("pp_light_*.fit")): the frame numbers, ascending
RECURSIVE SortedSeq(_)
SortedSeq(ks) ==
    IF ks = {} THEN <<>>
    ELSE LET m == CHOOSE k \in ks : \A j \in ks : k <= j
         IN <<m>> \o SortedSeq(ks \ {m})

\* glob without sorted(): the directory's own order (here: descending)
Glob_unsorted(process_dir) ==
    IF \E i \in SetIds : process_dir = ProcessDir(i)
    THEN LET i == CHOOSE j \in SetIds : process_dir = ProcessDir(j)
             n == Cardinality(pp_light[i])
         IN [j \in 1..n |-> Join(process_dir, PpLight(SortedSeq(pp_light[i])[n + 1 - j]))]
    ELSE <<>>

Glob(process_dir) ==
    IF \E i \in SetIds : process_dir = ProcessDir(i)
    THEN LET i == CHOOSE j \in SetIds : process_dir = ProcessDir(j)
         IN [n \in 1..Cardinality(pp_light[i]) |->
                Join(process_dir, PpLight(SortedSeq(pp_light[i])[n]))]
    ELSE <<>>

\* ------------------------------------------------------------- discovery
\* log lines
Msg(kind, what) == [kind |-> kind, what |-> what]

\* detect_sets with `continue` in place of `break` at a missing folder
RECURSIVE Scan_continue(_, _)
Scan_continue(wd, i) ==
    IF i > MaxSet THEN [sets |-> <<>>, log |-> <<>>]
    ELSE LET rest == Scan_continue(wd, i + 1)
         IN IF ~DirExists(SetPath(wd, i)) THEN rest
            ELSE IF DirExists(Join(SetPath(wd, i), Dir("lights")))
            THEN [sets |-> <<SetName(i)>> \o rest.sets,
                  log |-> <<Msg("Detected", SetName(i))>> \o rest.log]
            ELSE [sets |-> rest.sets,
                  log |-> <<Msg("Skipping", SetName(i))>> \o rest.log]

\* detect_sets with `break` at a set folder that has no lights
RECURSIVE Scan_break(_, _)
Scan_break(wd, i) ==
    IF ~DirExists(SetPath(wd, i)) THEN [sets |-> <<>>, log |-> <<>>]
    ELSE IF DirExists(Join(SetPath(wd, i), Dir("lights")))
    THEN LET rest == Scan_break(wd, i + 1)
         IN [sets |-> <<SetName(i)>> \o rest.sets,
             log |-> <<Msg("Detected", SetName(i))>> \o rest.log]
    ELSE [sets |-> <<>>, log |-> <<Msg("Skipping", SetName(i))>>]

\* the while loop of detect_sets from i on: the sets found and the lines logged
RECURSIVE Scan(_, _)
Scan(wd, i) ==
    IF ~DirExists(SetPath(wd, i)) THEN [sets |-> <<>>, log |-> <<>>]
    ELSE LET rest == Scan(wd, i + 1)
         IN IF DirExists(Join(SetPath(wd, i), Dir("lights")))
            THEN [sets |-> <<SetName(i)>> \o rest.sets,
                  log |-> <<Msg("Detected", SetName(i))>> \o rest.log]
            ELSE [sets |-> rest.sets,
                  log |-> <<Msg("Skipping", SetName(i))>> \o rest.log]

\* detect_sets with self.working_dir = wd (the caller has set it)
DetectSets(wd) ==
    IF wd = NoDir
    THEN UNCHANGED <<detected_sets, start_button, scan_log>>
    ELSE LET found == Scan(wd, 1)
         IN /\ detected_sets' = found.sets
            /\ scan_log' = found.log
            /\ start_button' = (found.sets # <<>>)

\* the directories the file dialog can return; NoDir: the dialog was cancelled
Choices == {NoDir, DataDir}

\* select_directory with a dialog that offers the directories `choices`
SelectDirectory(choices) ==
    /\ \E directory \in choices :
          IF directory # NoDir
          THEN /\ working_dir' = directory
               /\ DetectSets(directory)
          ELSE UNCHANGED <<working_dir, detected_sets, start_button, scan_log>>
    /\ UNCHANGED <<fsvars, worker, widgets, wk, cwd, stack_out, cmds, progress,
                   finished, finished_q, log, linked, links_before, runs_left,
                   presetvars>>

select_directory == SelectDirectory(Choices) /\ UNCHANGED selects_left

\* the worker's frame before a run
IdleFrame ==
    [pc |-> "idle", seq_name |-> "", sets |-> <<>>, idx |-> 0, num_sets |-> 0,
     progress_per_set |-> 0, set_path |-> NoDir, combined_dir |-> NoDir,
     frame_counter |-> 0, files |-> <<>>, fi |-> 0]

\* self.worker: "none", "running" (its thread is inside run()), "finished", or
\* "overlapped": a new SirilWorker was started while the thread of the previous
\* one was still inside run(); the model follows the threads no further.
start_processing ==
    /\ start_button
    /\ runs_left > 0
    /\ \E reply \in {"Yes", "No"} :
        IF \/ working_dir = NoDir
           \/ detected_sets = <<>>
           \/ ~SIRILPY_AVAILABLE
           \/ Strip(seq_name_edit) = ""
           \/ reply = "No"
        THEN UNCHANGED vars
        ELSE /\ start_button' = FALSE
             /\ worker' = IF worker = "running" THEN "overlapped" ELSE "running"
             /\ wk' = [IdleFrame EXCEPT !.pc = "start"]
             /\ cmds' = <<>>
             /\ progress' = <<>>
             /\ finished' = <<>>
             /\ log' = <<>>
             /\ linked' = <<>>
             /\ links_before' = {}
             /\ runs_left' = runs_left - 1
             /\ UNCHANGED <<fsvars, working_dir, detected_sets, widgets, cwd,
                            stack_out, finished_q, scan_log, presetvars, selects_left>>

on_processing_finished ==
    /\ finished_q # <<>>
    /\ finished_q' = Tail(finished_q)
    /\ start_button' = TRUE
    /\ UNCHANGED <<fsvars, working_dir, detected_sets, worker, widgets, wk, cwd,
                   stack_out, cmds, progress, finished, log, scan_log, linked,
                   links_before, runs_left, presetvars, selects_left>>

\* ------------------------------------------------------------- presets
\* the values of the eight controls
Config ==
    [seq_name_edit |-> seq_name_edit, bias_coeff_spin |-> bias_coeff_spin,
     use_flats_check |-> use_flats_check, debayer_check |-> debayer_check,
     sigma_high_spin |-> sigma_high_spin, sigma_low_spin |-> sigma_low_spin,
     normalize_check |-> normalize_check, rgb_equal_check |-> rgb_equal_check]

\* json.dump of a str, of a float (its repr: "8.5", "3.0") and of a bool
JStr(t) == [json |-> "string", text |-> t]
JNum(t) == [json |-> "number", repr |-> StrFloat(t)]
JBool(b) == [json |-> "bool", v |-> b]

\* json.load of a value: the text, the number (in tenths), the truth value
Loads(j) ==
    CASE j.json = "string" -> j.text
      [] j.json = "number" -> j.repr.whole * 10 + j.repr.tenth
      [] j.json = "bool" -> j.v

\* preset_data of save_preset for the controls' values c
PresetData(c) ==
    [sequence_name |-> JStr(c.seq_name_edit),
     bias_coefficient |-> JNum(c.bias_coeff_spin),
     use_flats |-> JBool(c.use_flats_check),
     debayer |-> JBool(c.debayer_check),
     sigma_high |-> JNum(c.sigma_high_spin),
     sigma_low |-> JNum(c.sigma_low_spin),
     output_normalization |-> JBool(c.normalize_check),
     rgb_equalization |-> JBool(c.rgb_equal_check)]

\* the file names a file dialog returns; "": the dialog was cancelled
PresetPaths == {"", "preset.json"}

save_preset ==
    /\ Len(preset_log) < MaxPresetOps
    /\ \E file_path \in PresetPaths :
          IF file_path # ""
          THEN /\ preset_file' = PresetData(Config)
               /\ preset_log' = Append(preset_log, Msg("Preset saved", file_path))
          ELSE UNCHANGED presetvars
    /\ UNCHANGED <<fsvars, working_dir, detected_sets, worker, start_button, widgets,
                   wk, cwd, stack_out, signals, runs_left, selects_left>>

\* preset_data.get(key, default) of load_preset
Get(preset_data, key, default) ==
    IF key \in DOMAIN preset_data THEN Loads(preset_data[key]) ELSE default

\* QDoubleSpinBox.setValue(v) of a spin box with the range lo..hi (in tenths)
SetValue(lo, hi, v) == IF v < lo THEN lo ELSE IF v > hi THEN hi ELSE v

\* load_preset reading sigma_low for both sigma controls
load_preset_one_sigma ==
    /\ Len(preset_log) < MaxPresetOps
    /\ \E file_path \in PresetPaths :
          IF file_path # "" /\ preset_file # NoFile
          THEN /\ seq_name_edit' = Get(preset_file, "sequence_name", DefaultSeqName)
               /\ bias_coeff_spin' = SetValue(0, 1000, Get(preset_file, "bias_coefficient", 80))
               /\ use_flats_check' = Get(preset_file, "use_flats", TRUE)
               /\ debayer_check' = Get(preset_file, "debayer", TRUE)
               /\ sigma_high_spin' = SetValue(1, 100, Get(preset_file, "sigma_low", 30))
               /\ sigma_low_spin' = SetValue(1, 100, Get(preset_file, "sigma_low", 30))
               /\ normalize_check' = Get(preset_file, "output_normalization", TRUE)
               /\ rgb_equal_check' = Get(preset_file, "rgb_equalization", TRUE)
               /\ preset_log' = Append(preset_log, Msg("Preset loaded", file_path))
               /\ UNCHANGED preset_file
          ELSE UNCHANGED <<widgets, presetvars>>
    /\ UNCHANGED <<fsvars, working_dir, detected_sets, worker, start_button,
                   wk, cwd, stack_out, signals, runs_left, selects_left>>

\* the file dialog returns an existing file or nothing
load_preset ==
    /\ Len(preset_log) < MaxPresetOps
    /\ \E file_path \in PresetPaths :
          IF file_path # "" /\ preset_file # NoFile
          THEN /\ seq_name_edit' = Get(preset_file, "sequence_name", DefaultSeqName)
               /\ bias_coeff_spin' = SetValue(0, 1000, Get(preset_file, "bias_coefficient", 80))
               /\ use_flats_check' = Get(preset_file, "use_flats", TRUE)
               /\ debayer_check' = Get(preset_file, "debayer", TRUE)
               /\ sigma_high_spin' = SetValue(1, 100, Get(preset_file, "sigma_high", 30))
               /\ sigma_low_spin' = SetValue(1, 100, Get(preset_file, "sigma_low", 30))
               /\ normalize_check' = Get(preset_file, "output_normalization", TRUE)
               /\ rgb_equal_check' = Get(preset_file, "rgb_equalization", TRUE)
               /\ preset_log' = Append(preset_log, Msg("Preset loaded", file_path))
               /\ UNCHANGED preset_file
          ELSE UNCHANGED <<widgets, presetvars>>
    /\ UNCHANGED <<fsvars, working_dir, detected_sets, worker, start_button,
                   wk, cwd, stack_out, signals, runs_left, selects_left>>

\* ------------------------------------------------------------- the engine
\* str(e) of the exception siril.cmd raises for a command
EngineError(args) == [error |-> "siril", cmd |-> args]

\* the -out= argument of a command, <<>> when it has none
OutOf(args) ==
    LET js == {j \in 1..Len(args) : "opt" \in DOMAIN args[j] /\ args[j].opt = "-out"}
    IN IF js = {} THEN <<>> ELSE args[CHOOSE j \in js : TRUE].rel

\* self.siril.cmd(*args) returns: what the engine has done.  cd moves its current
\* directory; stack pp_flat in a process folder may leave pp_flat_stacked.fit
\* there; calibrate light in a process folder leaves the pp_light frames of this
\* calibration, at most one per raw frame; a stack with -out writes that file.
EngineOK(args) ==
    /\ cwd' = IF args[1] = S("cd")
              THEN IF "path" \in DOMAIN args[2] THEN args[2].path
                   ELSE Resolve(cwd, args[2].rel)
              ELSE cwd
    /\ stack_out' = IF args[1] = S("stack") /\ OutOf(args) # <<>>
                    THEN Resolve(cwd, OutOf(args))
                    ELSE stack_out
    /\ IF args[1] = S("stack") /\ args[2] = S("pp_flat")
          /\ \E i \in SetIds : cwd = ProcessDir(i)
       THEN \E made \in BOOLEAN :
               master_flat' = [i \in SetIds |->
                   IF cwd = ProcessDir(i) THEN master_flat[i] \/ made
                   ELSE master_flat[i]]
       ELSE UNCHANGED master_flat
    /\ IF args[1] = S("calibrate") /\ args[2] = S("light")
          /\ \E i \in SetIds : cwd = ProcessDir(i)
       THEN \E i \in SetIds : \E k \in 0..raw_lights[i] :
               /\ cwd = ProcessDir(i)
               /\ pp_light' = [pp_light EXCEPT ![i] = 1..k]
       ELSE UNCHANGED pp_light

\* ------------------------------------------------------------- the worker
\* SirilWorker.run with the exception logged and the run reported as a success
Raise_success(lines, e) ==
    /\ log' = log \o lines \o <<Msg("Error in workflow", e), Msg("Error", e)>>
    /\ finished' = Append(finished, [success |-> TRUE, message |-> S("Task completed successfully")])
    /\ finished_q' = Append(finished_q, [success |-> TRUE, message |-> S("Task completed successfully")])
    /\ worker' = "finished"
    /\ wk' = [wk EXCEPT !.pc = "done"]
    /\ UNCHANGED progress

\* an exception e leaves process_workflow (its except clause logs and re-raises)
\* and reaches SirilWorker.run, which logs it and emits finished(False, str(e))
Raise(lines, e) ==
    /\ log' = log \o lines \o <<Msg("Error in workflow", e), Msg("Error", e)>>
    /\ finished' = Append(finished, [success |-> FALSE, message |-> e])
    /\ finished_q' = Append(finished_q, [success |-> FALSE, message |-> e])
    /\ worker' = "finished"
    /\ wk' = [wk EXCEPT !.pc = "done"]
    /\ UNCHANGED progress

\* SirilWorker.cmd with the exception logged and swallowed (no `raise`)
Cmd_swallow(before, args, frame, emitted, after) ==
    /\ cmds' = Append(cmds, args)
    /\ \/ /\ EngineOK(args)
          /\ log' = log \o before \o after
       \/ /\ log' = log \o before \o <<Msg("Command failed", EngineError(args))>> \o after
          /\ UNCHANGED <<cwd, stack_out, master_flat, pp_light>>
    /\ wk' = frame
    /\ progress' = progress \o emitted
    /\ UNCHANGED <<finished, finished_q, worker>>
    /\ UNCHANGED <<set_dir, lights_dir, flats_dir, raw_lights, made_dirs, links,
                   working_dir, detected_sets, start_button, widgets, scan_log,
                   linked, links_before, runs_left, presetvars, selects_left>>

\* SirilWorker.cmd(*args), after the lines `before` were logged: the command is
\* logged and handed to the engine.  If the engine returns, the worker goes on
\* with `frame`, having emitted the progress values `emitted` and logged `after`;
\* if the engine raises, the exception is logged and re-raised.
Cmd(before, args, frame, emitted, after) ==
    /\ cmds' = Append(cmds, args)
    /\ \/ /\ EngineOK(args)
          /\ wk' = frame
          /\ progress' = progress \o emitted
          /\ log' = log \o before \o after
          /\ UNCHANGED <<finished, finished_q, worker>>
       \/ /\ Raise(before \o <<Msg("Command failed", EngineError(args))>>,
                   EngineError(args))
          /\ UNCHANGED <<cwd, stack_out, master_flat, pp_light>>
    /\ UNCHANGED <<set_dir, lights_dir, flats_dir, raw_lights, made_dirs, links,
                   working_dir, detected_sets, start_button, widgets, scan_log,
                   linked, links_before, runs_left, presetvars, selects_left>>

At(label) == worker = "running" /\ wk.pc = label

\* a step of the worker that issues no command and cannot fail
Local(frame, emitted, lines) ==
    /\ wk' = frame
    /\ progress' = progress \o emitted
    /\ log' = log \o lines
    /\ UNCHANGED <<set_dir, lights_dir, flats_dir, raw_lights, master_flat, pp_light,
                   links, working_dir, detected_sets, worker, start_button, widgets,
                   cwd, stack_out, cmds, finished, finished_q, scan_log, linked,
                   runs_left, presetvars, selects_left>>

\* progress_per_set without the division by the number of sets
ProgressPerSet_whole(num_sets) == 60

\* progress_per_set (process_workflow, line 431)
ProgressPerSet(num_sets) == IF num_sets > 0 THEN 60 \div num_sets ELSE 0

\* the value emitted after the set at position idx (process_workflow, line 436)
SetProgress(idx, progress_per_set) == 5 + (idx + 1) * progress_per_set

\* process_workflow, lines 414-420
wf_cd ==
    /\ At("start")
    /\ Cmd(<<>>, <<S("cd"), P(working_dir)>>,
           [wk EXCEPT !.pc = "setup", !.seq_name = Strip(seq_name_edit)], <<>>, <<>>)

\* process_workflow, lines 421-433: progress 5, mkdir, the loop over the sets
wf_setup ==
    /\ At("setup")
    /\ UNCHANGED links_before
    /\ made_dirs' = made_dirs \cup {Join(working_dir, Dir("multi_night_combined"))}
    /\ Local([wk EXCEPT !.pc = "loop",
                        !.num_sets = Len(detected_sets),
                        !.progress_per_set = ProgressPerSet(Len(detected_sets)),
                        !.sets = detected_sets,
                        !.idx = 0],
             <<5>>, <<>>)

\* process_workflow with register_combined called before combine_sequences
wf_loop_register_first ==
    /\ At("loop")
    /\ UNCHANGED <<made_dirs, links_before>>
    /\ IF wk.idx < Len(wk.sets)
       THEN Local([wk EXCEPT !.pc = "l_cd",
                             !.set_path = Join(working_dir, Dir(wk.sets[wk.idx + 1]))],
                  <<>>, <<>>)
       ELSE Local([wk EXCEPT !.pc = "r_cd"], <<>>, <<>>)

\* the for loop of process_workflow (433-435) and the head of process_set (462-467, 477)
wf_loop ==
    /\ At("loop")
    /\ UNCHANGED <<made_dirs, links_before>>
    /\ IF wk.idx < Len(wk.sets)
       THEN LET set_path == Join(working_dir, Dir(wk.sets[wk.idx + 1]))
            IN IF use_flats_check
               THEN IF DirExists(Join(set_path, Dir("flats")))
                    THEN Local([wk EXCEPT !.pc = "f_cd", !.set_path = set_path],
                               <<>>, <<>>)
                    ELSE Local([wk EXCEPT !.pc = "l_cd", !.set_path = set_path],
                               <<>>, <<Msg("Warning: No flats folder", wk.sets[wk.idx + 1])>>)
               ELSE Local([wk EXCEPT !.pc = "l_cd", !.set_path = set_path], <<>>, <<>>)
       ELSE Local([wk EXCEPT !.pc = "combine"], <<>>, <<>>)

\* process_set, lines 470-475: the flats of the set
f_cd ==
    /\ At("f_cd")
    /\ Cmd(<<>>, <<S("cd"), P(Join(wk.set_path, Dir("flats")))>>,
           [wk EXCEPT !.pc = "f_convert"], <<>>, <<>>)

f_convert ==
    /\ At("f_convert")
    /\ Cmd(<<>>, <<S("convert"), S("flat"), Out(<<Up, Dir("process")>>)>>,
           [wk EXCEPT !.pc = "f_cd_process"], <<>>, <<>>)

f_cd_process ==
    /\ At("f_cd_process")
    /\ Cmd(<<>>, <<S("cd"), R(<<Up, Dir("process")>>)>>,
           [wk EXCEPT !.pc = "f_calibrate"], <<>>, <<>>)

f_calibrate ==
    /\ At("f_calibrate")
    /\ Cmd(<<>>, <<S("calibrate"), S("flat")>>, [wk EXCEPT !.pc = "f_stack"], <<>>, <<>>)

f_stack ==
    /\ At("f_stack")
    /\ Cmd(<<>>, <<S("stack"), S("pp_flat"), S("rej"), S("3"), S("3"), S("-norm=mul")>>,
           [wk EXCEPT !.pc = "f_cd_wd"], <<>>, <<>>)

f_cd_wd ==
    /\ At("f_cd_wd")
    /\ Cmd(<<>>, <<S("cd"), P(working_dir)>>, [wk EXCEPT !.pc = "l_cd"], <<>>, <<>>)

\* process_set, lines 480-485: the lights of the set
l_cd ==
    /\ At("l_cd")
    /\ Cmd(<<>>, <<S("cd"), P(Join(wk.set_path, Dir("lights")))>>,
           [wk EXCEPT !.pc = "l_convert"], <<>>, <<>>)

l_convert ==
    /\ At("l_convert")
    /\ Cmd(<<>>, <<S("convert"), S("light"), Out(<<Up, Dir("process")>>)>>,
           [wk EXCEPT !.pc = "l_cd_process"], <<>>, <<>>)

l_cd_process ==
    /\ At("l_cd_process")
    /\ Cmd(<<>>, <<S("cd"), R(<<Up, Dir("process")>>)>>,
           [wk EXCEPT !.pc = "l_calibrate"], <<>>, <<>>)

\* calib_args with the debayer arguments taken for granted only in part:
\* -equalize_cfa is left to a later command
CalibArgs_no_equalize(set_path) ==
    <<S("calibrate"), S("light"), Bias(IntOf(bias_coeff_spin))>>
    \o (IF use_flats_check
           /\ Exists(Join(Join(set_path, Dir("process")), Dir("pp_flat_stacked.fit")))
        THEN <<S("-flat=pp_flat_stacked")>> ELSE <<>>)
    \o (IF debayer_check THEN <<S("-cfa"), S("-debayer")>> ELSE <<>>)

\* process_set, lines 488-495: calib_args
CalibArgs(set_path) ==
    <<S("calibrate"), S("light"), Bias(IntOf(bias_coeff_spin))>>
    \o (IF use_flats_check
           /\ Exists(Join(Join(set_path, Dir("process")), Dir("pp_flat_stacked.fit")))
        THEN <<S("-flat=pp_flat_stacked")>> ELSE <<>>)
    \o (IF debayer_check THEN <<S("-cfa"), S("-equalize_cfa"), S("-debayer")>> ELSE <<>>)

l_calibrate ==
    /\ At("l_calibrate")
    /\ Cmd(<<>>, CalibArgs(wk.set_path), [wk EXCEPT !.pc = "l_cd_wd"], <<>>, <<>>)

\* process_workflow with combine_sequences called inside the loop over the sets
l_cd_wd_combine_each ==
    /\ At("l_cd_wd")
    /\ Cmd(<<>>, <<S("cd"), P(working_dir)>>,
           [wk EXCEPT !.pc = "combine", !.idx = wk.idx + 1],
           <<SetProgress(wk.idx, wk.progress_per_set)>>,
           <<Msg("Completed", wk.sets[wk.idx + 1])>>)

\* process_set, lines 498-500, and process_workflow, line 436
l_cd_wd ==
    /\ At("l_cd_wd")
    /\ Cmd(<<>>, <<S("cd"), P(working_dir)>>,
           [wk EXCEPT !.pc = "loop", !.idx = wk.idx + 1],
           <<SetProgress(wk.idx, wk.progress_per_set)>>,
           <<Msg("Completed", wk.sets[wk.idx + 1])>>)

\* ------------------------------------------------------------- combination
\* combine_sequences, lines 504-509 (entered from process_workflow, line 438-439)
combine ==
    /\ At("combine")
    /\ UNCHANGED made_dirs
    /\ links_before' = links
    /\ Local([wk EXCEPT !.pc = "c_set",
                        !.combined_dir = Join(working_dir, Dir("multi_night_combined")),
                        !.frame_counter = 1,
                        !.sets = detected_sets,
                        !.idx = 0],
             <<>>, <<>>)

\* combine_sequences with frame_counter advanced for a set without files
c_set_counts_empty ==
    /\ At("c_set")
    /\ UNCHANGED <<made_dirs, links_before>>
    /\ IF wk.idx < Len(wk.sets)
       THEN LET set_process_dir ==
                    Join(Join(working_dir, Dir(wk.sets[wk.idx + 1])), Dir("process"))
                pp_light_files == Glob(set_process_dir)
            IN IF pp_light_files # <<>>
               THEN Local([wk EXCEPT !.pc = "c_link", !.files = pp_light_files, !.fi = 1],
                          <<>>,
                          <<Msg("Linking", <<Len(pp_light_files), wk.sets[wk.idx + 1]>>)>>)
               ELSE Local([wk EXCEPT !.idx = wk.idx + 1,
                                     !.frame_counter = wk.frame_counter + 1],
                          <<>>,
                          <<Msg("Warning: No pp_light files found", wk.sets[wk.idx + 1])>>)
       ELSE Local([wk EXCEPT !.pc = "r_cd"],
                  <<70>>,
                  <<Msg("Created symbolic links", wk.frame_counter - 1)>>)

\* combine_sequences, lines 509-514 and 523-526: the next set's files, or the end
\* of the loop (and process_workflow, line 440)
c_set ==
    /\ At("c_set")
    /\ UNCHANGED <<made_dirs, links_before>>
    /\ IF wk.idx < Len(wk.sets)
       THEN LET set_process_dir ==
                    Join(Join(working_dir, Dir(wk.sets[wk.idx + 1])), Dir("process"))
                pp_light_files == Glob(set_process_dir)
            IN IF pp_light_files # <<>>
               THEN Local([wk EXCEPT !.pc = "c_link", !.files = pp_light_files, !.fi = 1],
                          <<>>,
                          <<Msg("Linking", <<Len(pp_light_files), wk.sets[wk.idx + 1]>>)>>)
               ELSE Local([wk EXCEPT !.idx = wk.idx + 1],
                          <<>>,
                          <<Msg("Warning: No pp_light files found", wk.sets[wk.idx + 1])>>)
       ELSE Local([wk EXCEPT !.pc = "r_cd"],
                  <<70>>,
                  <<Msg("Created symbolic links", wk.frame_counter - 1)>>)

\* str(e) of the OSError a link operation raises
LinkError(kind, p) == [error |-> kind, path |-> p]

\* combine_sequences without lines 519-520: an existing link is left in place
Unlinked_never(link_name) == links

\* link_name.unlink() when link_name.exists()
Unlinked(link_name) ==
    IF Exists(link_name) THEN {l \in links : l.link # link_name} ELSE links

\* the exception link_name.symlink_to raises, "" when it creates the link: the
\* folder is missing, the name is still taken, or the system refuses (refused)
SymlinkError(combined_dir, link_name, after, refused) ==
    IF ~DirExists(combined_dir) THEN "FileNotFoundError"
    ELSE IF \E l \in after : l.link = link_name THEN "FileExistsError"
    ELSE IF refused THEN "OSError"
    ELSE ""

\* combine_sequences, lines 517-522: one file of the set
c_link ==
    /\ At("c_link")
    /\ \E refused \in BOOLEAN :
        LET fit_file == wk.files[wk.fi]
            link_name == Join(wk.combined_dir, LinkFile(wk.seq_name, wk.frame_counter))
            after == Unlinked(link_name)
            error == SymlinkError(wk.combined_dir, link_name, after, refused)
        IN IF error = ""
           THEN /\ links' = after \cup {[link |-> link_name, target |-> fit_file]}
                /\ linked' = Append(linked, [frame |-> wk.frame_counter,
                                             link |-> link_name, target |-> fit_file])
                /\ wk' = IF wk.fi < Len(wk.files)
                         THEN [wk EXCEPT !.fi = wk.fi + 1,
                                         !.frame_counter = wk.frame_counter + 1]
                         ELSE [wk EXCEPT !.pc = "c_set", !.idx = wk.idx + 1,
                                         !.frame_counter = wk.frame_counter + 1]
                /\ UNCHANGED <<progress, log, finished, finished_q, worker>>
           ELSE /\ links' = after
                /\ Raise(<<>>, LinkError(error, link_name))
                /\ UNCHANGED linked
    /\ UNCHANGED <<set_dir, lights_dir, flats_dir, raw_lights, master_flat, pp_light,
                   made_dirs, working_dir, detected_sets, start_button, widgets,
                   cwd, stack_out, cmds, scan_log, links_before, runs_left, presetvars, selects_left>>

\* ------------------------------------------------------------- registration
\* register_combined, lines 530-536, and process_workflow, line 444
r_cd ==
    /\ At("r_cd")
    /\ Cmd(<<>>, <<S("cd"), P(Join(working_dir, Dir("multi_night_combined")))>>,
           [wk EXCEPT !.pc = "r_register"], <<>>, <<>>)

r_register ==
    /\ At("r_register")
    /\ Cmd(<<>>, <<S("register"), S(wk.seq_name)>>, [wk EXCEPT !.pc = "r_cd_wd"],
           <<>>, <<>>)

r_cd_wd ==
    /\ At("r_cd_wd")
    /\ Cmd(<<>>, <<S("cd"), P(working_dir)>>, [wk EXCEPT !.pc = "s_cd"], <<85>>, <<>>)

\* ------------------------------------------------------------- stacking
\* stack_args with `elif` for the second flag
StackArgs_elif(seq_name) ==
    <<S("stack"), Registered(seq_name), S("rej"), Num(sigma_low_spin), Num(sigma_high_spin)>>
    \o <<S("-norm=addscale")>>
    \o (IF normalize_check THEN <<S("-output_norm")>>
        ELSE IF rgb_equal_check THEN <<S("-rgb_equal")>> ELSE <<>>)
    \o <<Out(<<Up, StackedName(seq_name)>>)>>

\* stack_args with "-out=" + seq_name + "_stacked" (no "../")
StackArgs_here(seq_name) ==
    <<S("stack"), Registered(seq_name), S("rej"), Num(sigma_low_spin), Num(sigma_high_spin)>>
    \o <<S("-norm=addscale")>>
    \o (IF normalize_check THEN <<S("-output_norm")>> ELSE <<>>)
    \o (IF rgb_equal_check THEN <<S("-rgb_equal")>> ELSE <<>>)
    \o <<Out(<<StackedName(seq_name)>>)>>

\* stack_combined, lines 544-556: stack_args
StackArgs(seq_name) ==
    <<S("stack"), Registered(seq_name), S("rej"), Num(sigma_low_spin), Num(sigma_high_spin)>>
    \o <<S("-norm=addscale")>>
    \o (IF normalize_check THEN <<S("-output_norm")>> ELSE <<>>)
    \o (IF rgb_equal_check THEN <<S("-rgb_equal")>> ELSE <<>>)
    \o <<Out(<<Up, StackedName(seq_name)>>)>>

\* stack_combined, lines 540-560, and process_workflow, lines 448-450
s_cd ==
    /\ At("s_cd")
    /\ Cmd(<<>>, <<S("cd"), P(Join(working_dir, Dir("multi_night_combined")))>>,
           [wk EXCEPT !.pc = "s_stack"], <<>>, <<>>)

s_stack ==
    /\ At("s_stack")
    /\ Cmd(<<>>, StackArgs(wk.seq_name), [wk EXCEPT !.pc = "s_cd_wd"], <<>>, <<>>)

s_cd_wd ==
    /\ At("s_cd_wd")
    /\ Cmd(<<>>, <<S("cd"), P(working_dir)>>, [wk EXCEPT !.pc = "close"], <<100>>,
           <<Msg("Processing Complete!", "")>>)

\* the line "Final result: ..." of process_workflow, line 451
FinalResult(seq_name) == Msg("Final result", Join(working_dir, StackedFit(seq_name)))

\* process_workflow, lines 451-454, and SirilWorker.run, lines 86-87: the task
\* function returns None and finished(True, ...) is emitted
Completed == [success |-> TRUE, message |-> S("Task completed successfully")]

wf_close ==
    /\ At("close")
    /\ cmds' = Append(cmds, <<S("close")>>)
    /\ \/ /\ EngineOK(<<S("close")>>)
          /\ wk' = [wk EXCEPT !.pc = "done"]
          /\ log' = Append(log, FinalResult(wk.seq_name))
          /\ finished' = Append(finished, Completed)
          /\ finished_q' = Append(finished_q, Completed)
          /\ worker' = "finished"
          /\ UNCHANGED progress
       \/ /\ Raise(<<FinalResult(wk.seq_name),
                     Msg("Command failed", EngineError(<<S("close")>>))>>,
                   EngineError(<<S("close")>>))
          /\ UNCHANGED <<cwd, stack_out, master_flat, pp_light>>
    /\ UNCHANGED <<set_dir, lights_dir, flats_dir, raw_lights, made_dirs, links,
                   working_dir, detected_sets, start_button, widgets, scan_log,
                   linked, links_before, runs_left, presetvars, selects_left>>

\* ------------------------------------------------------------- initial states
\* the texts, spin-box values (in tenths) the widgets are given
SeqTexts == {DefaultSeqName, " m31 ", ""}
BiasValues == {0, 80, 85, 1000}
SigmaValues == {1, 30, 100}

\* __init__ and init_ui: the console after construction, nothing processed yet
InitConsole ==
    /\ working_dir = NoDir
    /\ detected_sets = <<>>
    /\ worker = "none"
    /\ start_button = FALSE
    /\ wk = IdleFrame
    /\ cwd = <<Dir("home")>>
    /\ stack_out = NoDir
    /\ cmds = <<>>
    /\ progress = <<>>
    /\ finished = <<>>
    /\ finished_q = <<>>
    /\ log = <<>>
    /\ scan_log = <<>>
    /\ linked = <<>>
    /\ links_before = {}
    /\ pp_light = [i \in SetIds |-> {}]
    /\ made_dirs = {}
    /\ links = {}
    /\ selects_left = MaxSelects

\* init_ui: the values the widgets are created with
DefaultWidgets ==
    /\ seq_name_edit = DefaultSeqName
    /\ bias_coeff_spin = 80
    /\ use_flats_check = TRUE
    /\ debayer_check = TRUE
    /\ sigma_high_spin = 30
    /\ sigma_low_spin = 30
    /\ normalize_check = TRUE
    /\ rgb_equal_check = TRUE

\* every layout of set folders (a flats folder only beside a lights folder), one
\* light frame per lights folder, the widgets as created, one run
InitLayouts ==
    /\ InitConsole
    /\ DefaultWidgets
    /\ set_dir \in [SetIds -> BOOLEAN]
    /\ lights_dir \in [SetIds -> BOOLEAN]
    /\ flats_dir \in [SetIds -> BOOLEAN]
    /\ \A i \in SetIds : (lights_dir[i] => set_dir[i]) /\ (flats_dir[i] => lights_dir[i])
    /\ \A i \in SetIds : set_dir[i] => i <= MaxLayout
    /\ raw_lights = [i \in SetIds |-> IF lights_dir[i] THEN 1 ELSE 0]
    /\ runs_left = 1

\* the widgets set by the user, one group at a time (the sequence name, the
\* calibration options, the stacking options), the other groups as created; one
\* set with one light frame and flats, one run
InitConfigs ==
    /\ InitConsole
    /\ \/ /\ seq_name_edit \in SeqTexts
          /\ bias_coeff_spin = 80
          /\ use_flats_check = TRUE
          /\ debayer_check = TRUE
          /\ sigma_high_spin = 30
          /\ sigma_low_spin = 30
          /\ normalize_check = TRUE
          /\ rgb_equal_check = TRUE
       \/ /\ seq_name_edit = DefaultSeqName
          /\ bias_coeff_spin \in BiasValues
          /\ use_flats_check \in BOOLEAN
          /\ debayer_check \in BOOLEAN
          /\ sigma_high_spin = 30
          /\ sigma_low_spin = 30
          /\ normalize_check = TRUE
          /\ rgb_equal_check = TRUE
       \/ /\ seq_name_edit = DefaultSeqName
          /\ bias_coeff_spin = 80
          /\ use_flats_check = TRUE
          /\ debayer_check = TRUE
          /\ sigma_high_spin \in SigmaValues
          /\ sigma_low_spin \in SigmaValues
          /\ normalize_check \in BOOLEAN
          /\ rgb_equal_check \in BOOLEAN
    /\ set_dir = [i \in SetIds |-> i = 1]
    /\ lights_dir = [i \in SetIds |-> i = 1]
    /\ flats_dir = [i \in SetIds |-> i = 1]
    /\ raw_lights = [i \in SetIds |-> IF i = 1 THEN 1 ELSE 0]
    /\ runs_left = 1

\* two nights (set1 with flats and MaxFiles light frames, set2 without flats and
\* with one light frame), the widgets as created, and
\* several runs one after the other over the same directory
InitRerun ==
    /\ InitConsole
    /\ DefaultWidgets
    /\ set_dir = [i \in SetIds |-> i <= 2]
    /\ lights_dir = [i \in SetIds |-> i <= 2]
    /\ flats_dir = [i \in SetIds |-> i = 1]
    /\ raw_lights = [i \in SetIds |-> IF i = 1 THEN MaxFiles ELSE IF i = 2 THEN 1 ELSE 0]
    /\ runs_left = MaxRuns

\* n nights, n up to MaxSet, each with one light frame and no flats, one run
InitNights ==
    /\ InitConsole
    /\ DefaultWidgets
    /\ \E n \in SetIds :
          /\ set_dir = [i \in SetIds |-> i <= n]
          /\ lights_dir = [i \in SetIds |-> i <= n]
          /\ raw_lights = [i \in SetIds |-> IF i <= n THEN 1 ELSE 0]
    /\ flats_dir = [i \in SetIds |-> FALSE]
    /\ runs_left = 1

\* a night whose flats folder is gone while its process folder still holds the
\* pp_flat_stacked.fit of an earlier session; use-flats ticked or not; one run
InitLeftover ==
    /\ InitConsole
    /\ seq_name_edit = DefaultSeqName
    /\ bias_coeff_spin = 80
    /\ use_flats_check \in BOOLEAN
    /\ debayer_check = TRUE
    /\ sigma_high_spin = 30
    /\ sigma_low_spin = 30
    /\ normalize_check = TRUE
    /\ rgb_equal_check = TRUE
    /\ set_dir = [i \in SetIds |-> i = 1]
    /\ lights_dir = [i \in SetIds |-> i = 1]
    /\ flats_dir = [i \in SetIds |-> FALSE]
    /\ raw_lights = [i \in SetIds |-> IF i = 1 THEN 1 ELSE 0]
    /\ master_flat = [i \in SetIds |-> i = 1]
    /\ runs_left = 1

\* no process folder holds a master flat yet
NoMasterFlat == master_flat = [i \in SetIds |-> FALSE]

\* no preset has been saved or loaded
InitNoPreset ==
    /\ preset_file = NoFile
    /\ preset_log = <<>>

Init ==
    /\ InitNoPreset
    /\ \/ NoMasterFlat /\ (InitLayouts \/ InitConfigs \/ InitRerun \/ InitNights)
       \/ InitLeftover

\* ------------------------------------------------------------- specification
\* a run is active from start_processing until its finished event is handled
Active == worker = "running" \/ finished_q # <<>>

\* the user works the console while no run is active
user_select_directory == ~Active /\ select_directory
user_start_processing == ~Active /\ start_processing

\* the steps of the worker thread (QThread.start schedules SirilWorker.run)
WorkerNext ==
    \/ wf_cd
    \/ wf_setup
    \/ wf_loop
    \/ f_cd
    \/ f_convert
    \/ f_cd_process
    \/ f_calibrate
    \/ f_stack
    \/ f_cd_wd
    \/ l_cd
    \/ l_convert
    \/ l_cd_process
    \/ l_calibrate
    \/ l_cd_wd
    \/ combine
    \/ c_set
    \/ c_link
    \/ r_cd
    \/ r_register
    \/ r_cd_wd
    \/ s_cd
    \/ s_stack
    \/ s_cd_wd
    \/ wf_close

Next ==
    \/ user_select_directory
    \/ user_start_processing
    \/ on_processing_finished
    \/ wf_cd
    \/ wf_setup
    \/ wf_loop
    \/ f_cd
    \/ f_convert
    \/ f_cd_process
    \/ f_calibrate
    \/ f_stack
    \/ f_cd_wd
    \/ l_cd
    \/ l_convert
    \/ l_cd_process
    \/ l_calibrate
    \/ l_cd_wd
    \/ combine
    \/ c_set
    \/ c_link
    \/ r_cd
    \/ r_register
    \/ r_cd_wd
    \/ s_cd
    \/ s_stack
    \/ s_cd_wd
    \/ wf_close

Spec == Init /\ [][Next]_vars

\* the worker thread, once started, keeps running until run() returns
FairSpec == Init /\ [][Next]_vars /\ WF_vars(WorkerNext)

\* ------------------------------------------------------------- presets alone
\* the controls as init_ui creates them, and as a user may set them
DefaultConfig ==
    [seq_name_edit |-> DefaultSeqName, bias_coeff_spin |-> 80,
     use_flats_check |-> TRUE, debayer_check |-> TRUE,
     sigma_high_spin |-> 30, sigma_low_spin |-> 30,
     normalize_check |-> TRUE, rgb_equal_check |-> TRUE]
OtherConfig ==
    [seq_name_edit |-> " m31 ", bias_coeff_spin |-> 85,
     use_flats_check |-> FALSE, debayer_check |-> FALSE,
     sigma_high_spin |-> 100, sigma_low_spin |-> 1,
     normalize_check |-> FALSE, rgb_equal_check |-> FALSE]
EditConfigs == {DefaultConfig, OtherConfig}

\* the user sets the eight controls (typing, spinning, ticking)
user_edit ==
    /\ \E c \in EditConfigs :
          /\ seq_name_edit' = c.seq_name_edit
          /\ bias_coeff_spin' = c.bias_coeff_spin
          /\ use_flats_check' = c.use_flats_check
          /\ debayer_check' = c.debayer_check
          /\ sigma_high_spin' = c.sigma_high_spin
          /\ sigma_low_spin' = c.sigma_low_spin
          /\ normalize_check' = c.normalize_check
          /\ rgb_equal_check' = c.rgb_equal_check
    /\ UNCHANGED <<fsvars, working_dir, detected_sets, worker, start_button,
                   wk, cwd, stack_out, signals, runs_left, presetvars, selects_left>>

\* an empty disk
NoSets ==
    /\ set_dir = [i \in SetIds |-> FALSE]
    /\ lights_dir = [i \in SetIds |-> FALSE]
    /\ flats_dir = [i \in SetIds |-> FALSE]
    /\ raw_lights = [i \in SetIds |-> 0]
    /\ runs_left = 0

\* every setting of the controls over the sample values, and every value of the
\* bias coefficient (0.0 to 100.0 in steps of 0.1) with the other controls as
\* created; nothing to process
InitPresets ==
    /\ InitConsole
    /\ InitNoPreset
    /\ NoSets
    /\ NoMasterFlat
    /\ \/ /\ seq_name_edit \in SeqTexts
          /\ bias_coeff_spin \in BiasValues
          /\ use_flats_check \in BOOLEAN
          /\ debayer_check \in BOOLEAN
          /\ sigma_high_spin \in SigmaValues
          /\ sigma_low_spin \in SigmaValues
          /\ normalize_check \in BOOLEAN
          /\ rgb_equal_check \in BOOLEAN
       \/ /\ seq_name_edit = DefaultSeqName
          /\ bias_coeff_spin \in 0..1000
          /\ use_flats_check = TRUE
          /\ debayer_check = TRUE
          /\ sigma_high_spin = 30
          /\ sigma_low_spin = 30
          /\ normalize_check = TRUE
          /\ rgb_equal_check = TRUE

PresetNext ==
    \/ save_preset
    \/ load_preset
    \/ user_edit

PresetSpec == InitPresets /\ [][PresetNext]_vars

\* ------------------------------------------------------------- console and worker
\* the file dialog of select_directory may return any directory
select_any_directory ==
    /\ selects_left > 0
    /\ selects_left' = selects_left - 1
    /\ SelectDirectory(Choices \cup {OtherDir})

\* two nights (set1 with flats), one light frame each, the controls as created,
\* a preset file saved in an earlier session
InitConc ==
    /\ InitConsole
    /\ DefaultWidgets
    /\ set_dir = [i \in SetIds |-> i <= 2]
    /\ lights_dir = [i \in SetIds |-> i <= 2]
    /\ flats_dir = [i \in SetIds |-> i = 1]
    /\ raw_lights = [i \in SetIds |-> IF i <= 2 THEN 1 ELSE 0]
    /\ runs_left = MaxRuns
    /\ NoMasterFlat
    /\ preset_file = PresetData(OtherConfig)
    /\ preset_log = <<>>

\* the GUI thread handles the user's actions and the worker's finished signal
\* while the worker thread runs process_workflow: the two interleave freely
ConcNext ==
    \/ select_any_directory
    \/ start_processing
    \/ load_preset
    \/ on_processing_finished
    \/ WorkerNext

ConcSpec == InitConc /\ [][ConcNext]_vars

\* ------------------------------------------------------------- properties
Elems(seq) == {seq[j] : j \in DOMAIN seq}
SetNum(name) == CHOOSE i \in DOMAIN SetNames : SetNames[i] = name

\* the worker has logged "Command failed: ..." in the current run
FailedCommands == {j \in DOMAIN log : log[j].kind = "Command failed"}

C1_Failed ==
    \A j \in FailedCommands :
        /\ cmds # <<>>
        /\ cmds[Len(cmds)] = log[j].what.cmd
        /\ worker = "finished"
        /\ wk.pc = "done"
        /\ finished = <<[success |-> FALSE, message |-> log[j].what]>>

C1_NoMore ==
    FailedCommands # {} => (cmds' = cmds \/ (cmds' = <<>> /\ log' = <<>>))

\* C1: once a command has failed (worker.cmd has logged the failure and raised),
\* the failed command is the last command of the run: no command is issued after
\* it, it is not issued again, the worker has stopped and the run's only
\* terminal event is the failure with that command's error; the list of commands
\* changes again only when a new run starts.
C1_AbortOnFailure == [](C1_Failed) /\ [][C1_NoMore]_vars

\* a run whose register command failed, after the calibration of two sets
C1_Witness ==
    /\ \E j \in FailedCommands : log[j].what.cmd[1] = S("register")
    /\ Len(wk.sets) >= 2
    /\ worker = "finished"

\* C3: with the working directory selected, no set{k} at or above the first
\* missing set folder is in detected_sets, whatever that folder holds, and
\* detected_sets is empty when set1 is missing.
C3_HaltsAtFirstMissing ==
    working_dir = DataDir =>
        /\ LET found == Elems(detected_sets)
           IN \A k \in SetIds :
                 (\E m \in 1..k : ~set_dir[m]) => SetName(k) \notin found
        /\ ~set_dir[1] => detected_sets = <<>>

\* set1/lights, no set2, set3/lights: only set1 is discovered
C3_Witness ==
    /\ working_dir = DataDir
    /\ lights_dir[1] /\ ~set_dir[2] /\ lights_dir[3]
    /\ detected_sets = <<"set1">>

\* every folder set1..set{k} is there
Below(k) == \A m \in 1..k : set_dir[m]

\* C4: with the working directory selected, every set{k} below the first missing
\* folder that has a lights subfolder is in detected_sets, in ascending k; and
\* (before any run) every set{k} below the first missing folder without a lights
\* subfolder was logged as skipped.
C4_SkipsInvalid ==
    working_dir = DataDir =>
        /\ LET found == Elems(detected_sets)
           IN \A k \in SetIds : (Below(k) /\ lights_dir[k]) => SetName(k) \in found
        /\ \A a, b \in DOMAIN detected_sets :
              a < b => SetNum(detected_sets[a]) < SetNum(detected_sets[b])
        /\ LET skipped == Elems(scan_log)
           IN \A k \in SetIds :
                 (Below(k) /\ ~lights_dir[k]) => Msg("Skipping", SetName(k)) \in skipped

\* set1 without lights, set2/lights: set1 is skipped with a warning, set2 found
C4_Witness ==
    /\ working_dir = DataDir
    /\ set_dir[1] /\ ~lights_dir[1] /\ lights_dir[2]
    /\ SetName(2) \in Elems(detected_sets)
    /\ Msg("Skipping", SetName(1)) \in Elems(scan_log)

\* the n-th smallest frame number of a set of frame numbers
NthSmallest(ks, n) == CHOOSE k \in ks : Cardinality({j \in ks : j < k}) = n - 1

\* the calibrated frames of the sets of a SetList: the sets in list order, the
\* frames of a set in ascending order of their file names
RECURSIVE FramesOf(_)
FramesOf(sets) ==
    IF sets = <<>> THEN <<>>
    ELSE LET i == SetNum(Head(sets))
         IN [n \in 1..Cardinality(pp_light[i]) |->
                Join(ProcessDir(i), PpLight(NthSmallest(pp_light[i], n)))]
            \o FramesOf(Tail(sets))

\* the sum over a SetList of the sets' numbers of calibrated frames
RECURSIVE FrameCount(_)
FrameCount(sets) ==
    IF sets = <<>> THEN 0
    ELSE Cardinality(pp_light[SetNum(Head(sets))]) + FrameCount(Tail(sets))

\* the position in the SetList of the set a calibrated frame belongs to
PositionOf(file, sets) ==
    CHOOSE a \in DOMAIN sets : SubSeq(file, 1, 3) = ProcessDir(SetNum(sets[a]))

\* combine_sequences has returned in the current run (its last line was logged)
CombineReturned == \E j \in DOMAIN log : log[j].kind = "Created symbolic links"

\* the link combine_sequences is to make for the k-th frame of the SetList
ExpectedLink(frames, k) ==
    [link |-> Join(Join(working_dir, Dir("multi_night_combined")), LinkFile(wk.seq_name, k)),
     target |-> frames[k]]

\* C2: when combine_sequences has returned, its link operations are, in order,
\* the frames of the concatenation (sets in SetList order, files of a set in
\* ascending file order) under the counters 1..total, total being the sum of the
\* per-set file counts and the count it reports; each link is in the combined
\* folder once, and a frame of an earlier set has a smaller number than a frame
\* of a later set.
C2_ContiguousNumbering ==
    CombineReturned =>
        LET total == FrameCount(detected_sets)
            frames == FramesOf(detected_sets)
        IN /\ Len(linked) = total
           /\ Msg("Created symbolic links", total) \in Elems(log)
           /\ \A k \in 1..total :
                 LET expected == ExpectedLink(frames, k)
                 IN /\ linked[k] = [frame |-> k, link |-> expected.link,
                                    target |-> expected.target]
                    /\ {l \in links : l.link = expected.link} = {expected}
           /\ \A a, b \in DOMAIN linked :
                 PositionOf(linked[a].target, detected_sets)
                     < PositionOf(linked[b].target, detected_sets)
                 => linked[a].frame < linked[b].frame

\* a set of MaxFiles calibrated frames and a set of one have been combined
C2_Witness ==
    /\ CombineReturned
    /\ Len(detected_sets) >= 2
    /\ Cardinality(pp_light[SetNum(detected_sets[1])]) = MaxFiles
    /\ Len(linked) = MaxFiles + 1
    /\ linked[MaxFiles + 1].target = Join(ProcessDir(SetNum(detected_sets[2])), PpLight(1))

\* the links a combination over the current SetList, files and name makes
ExpectedLinks ==
    LET frames == FramesOf(detected_sets)
    IN {ExpectedLink(frames, k) : k \in DOMAIN frames}

\* a link operation of the current run failed because of what the folder held
LinkClash ==
    \E j \in DOMAIN finished :
        /\ ~finished[j].success
        /\ finished[j].message.error \in {"FileExistsError", "FileNotFoundError"}

\* C5: when combine_sequences is entered with the links of a combination over the
\* same SetList, the same calibrated files and the same name already in the
\* folder, it raises no error over an existing link and, when it has returned,
\* the folder holds the same links with the same targets as before.
C5_Idempotent ==
    (wk.pc \in {"c_set", "c_link", "r_cd", "r_register", "r_cd_wd", "s_cd", "s_stack",
                "s_cd_wd", "close", "done"}
     /\ wk.combined_dir # NoDir
     /\ ExpectedLinks \subseteq links_before)
    => /\ ~LinkClash
       /\ CombineReturned => links = links_before

\* a second run has combined the same three or more frames again
C5_Witness ==
    /\ runs_left <= MaxRuns - 2
    /\ CombineReturned
    /\ Cardinality(ExpectedLinks) >= 3
    /\ ExpectedLinks \subseteq links_before
    /\ links = links_before

\* the first two words of a command
Head2(c) == SubSeq(c, 1, IF Len(c) < 2 THEN Len(c) ELSE 2)

\* the commands of one set, by stage: its flat commands (when flats are used and
\* the set has a flats folder), then its light commands
SetStages(name) ==
    LET set_path == Join(working_dir, Dir(name))
    IN (IF use_flats_check /\ flats_dir[SetNum(name)]
        THEN << <<S("cd"), P(Join(set_path, Dir("flats")))>>,
                <<S("convert"), S("flat")>>,
                <<S("cd"), R(<<Up, Dir("process")>>)>>,
                <<S("calibrate"), S("flat")>>,
                <<S("stack"), S("pp_flat")>>,
                <<S("cd"), P(working_dir)>> >>
        ELSE <<>>)
       \o << <<S("cd"), P(Join(set_path, Dir("lights")))>>,
             <<S("convert"), S("light")>>,
             <<S("cd"), R(<<Up, Dir("process")>>)>>,
             <<S("calibrate"), S("light")>>,
             <<S("cd"), P(working_dir)>> >>

RECURSIVE AllSetStages(_)
AllSetStages(sets) ==
    IF sets = <<>> THEN <<>> ELSE SetStages(Head(sets)) \o AllSetStages(Tail(sets))

\* the commands of a whole run, by stage
RunStages ==
    LET combined_dir == Join(working_dir, Dir("multi_night_combined"))
    IN << <<S("cd"), P(working_dir)>> >>
       \o AllSetStages(detected_sets)
       \o << <<S("cd"), P(combined_dir)>>,
             <<S("register"), S(wk.seq_name)>>,
             <<S("cd"), P(working_dir)>>,
             <<S("cd"), P(combined_dir)>>,
             <<S("stack"), Registered(wk.seq_name)>>,
             <<S("cd"), P(working_dir)>>,
             <<S("close")>> >>

\* C6: the commands issued so far in a run are an initial part of the run's
\* stages in order (the initial cd; per set in SetList order its flat commands,
\* then its light commands; cd, register, cd; cd, stack, cd; close), none
\* skipped or interleaved; links are made only when every set's commands have
\* been issued; register is issued only when combine_sequences has returned
\* with every link made, and stack only when register has returned.
C6_StageOrder ==
    /\ LET stages == RunStages
       IN /\ Len(cmds) <= Len(stages)
          /\ \A j \in DOMAIN cmds : Head2(cmds[j]) = stages[j]
    /\ linked # <<>> => Len(cmds) >= 1 + Len(AllSetStages(detected_sets))
    /\ \A j \in DOMAIN cmds :
          cmds[j][1] = S("register") =>
              CombineReturned /\ Len(linked) = FrameCount(detected_sets)
    /\ \A j \in DOMAIN cmds :
          (cmds[j][1] = S("stack") /\ cmds[j][2] # S("pp_flat")) =>
              /\ \E i \in 1..(j - 1) : cmds[i][1] = S("register")
              /\ \A i \in FailedCommands : log[i].what.cmd[1] # S("register")

\* the stack command of a run over two sets, the first with flats, has been issued
C6_Witness ==
    /\ Len(detected_sets) >= 2
    /\ use_flats_check /\ flats_dir[SetNum(detected_sets[1])]
    /\ Len(linked) >= 2
    /\ \E j \in DOMAIN cmds : cmds[j][2] = Registered(wk.seq_name)

\* the run has ended with the success event
Complete == finished # <<>> /\ finished[Len(finished)].success

\* C8: the progress values emitted in a run are within 0..100 and never
\* decrease, and the last value of a run that completed is 100.
C8_ProgressMonotonic ==
    /\ \A j \in DOMAIN progress : progress[j] \in 0..100
    /\ \A j \in 1..(Len(progress) - 1) : progress[j] <= progress[j + 1]
    /\ Complete => (progress # <<>> /\ progress[Len(progress)] = 100)

\* a completed run over MaxSet sets: 5, one value per set, 70, 85, 100
C8_Witness ==
    /\ Complete
    /\ wk.num_sets = MaxSet
    /\ Len(progress) = MaxSet + 4
    /\ progress[Len(progress)] = 100

\* the final stack commands issued in the current run
FinalStacks == {j \in DOMAIN cmds : cmds[j][1] = S("stack") /\ cmds[j][2] # S("pp_flat")}

\* the spin-box value (in tenths) a printed number stands for
ValueOf(arg) == arg.num.whole * 10 + arg.num.tenth

\* C9: a run issues at most one final stack command, and exactly one once
\* stack_combined has issued its command; it is on r_{seq_name}, rejection with
\* sigma low then sigma high, always with -norm=addscale, with -output_norm
\* exactly when normalize is checked and -rgb_equal exactly when rgb is checked.
C9_StackCommand ==
    /\ Cardinality(FinalStacks) <= 1
    /\ (wk.pc \in {"s_cd_wd", "close"} \/ Complete) => Cardinality(FinalStacks) = 1
    /\ \A j \in FinalStacks :
          LET c == cmds[j]
          IN /\ c[2] = Registered(Strip(seq_name_edit))
             /\ c[3] = S("rej")
             /\ ValueOf(c[4]) = sigma_low_spin
             /\ ValueOf(c[5]) = sigma_high_spin
             /\ S("-norm=addscale") \in Elems(c)
             /\ S("-output_norm") \in Elems(c) <=> normalize_check
             /\ S("-rgb_equal") \in Elems(c) <=> rgb_equal_check

\* stacked with sigma 0.1 / 10.0 and both flags checked
C9_Witness ==
    /\ FinalStacks # {}
    /\ sigma_low_spin = 1 /\ sigma_high_spin = 100
    /\ normalize_check /\ rgb_equal_check

\* the engine has returned from the final stack command
StackReturned ==
    \E j \in FinalStacks : j < Len(cmds) \/ FailedCommands = {}

\* a path with the extension .fit added to its last component
WithFit(p) ==
    Join(Parent(p), [seq |-> p[Len(p)].seq, suffix |-> p[Len(p)].suffix, ext |-> ".fit"])

\* C10: the file the final stack command asks for, resolved against the engine's
\* current directory when the command is issued, is
\* {working_dir}/{seq_name}_stacked, and the final result the run reports is that
\* path with the extension .fit.
C10_OutputPath ==
    /\ StackReturned => stack_out = Join(working_dir, StackedName(Strip(seq_name_edit)))
    /\ \A j \in DOMAIN log :
          log[j].kind = "Final result" => StackReturned /\ log[j].what = WithFit(stack_out)

\* a run named " m31 " has stacked and reported DataDir/m31_stacked.fit
C10_Witness ==
    /\ stack_out = Join(DataDir, StackedName("m31"))
    /\ Msg("Final result", Join(DataDir, StackedFit("m31"))) \in Elems(log)
    /\ Complete

\* the lines of the log that report an error
ErrorLines == {j \in DOMAIN log : log[j].kind \in {"Command failed", "Error in workflow", "Error"}}

\* the terminal events of the current run are as the amended C7 says
C7_Terminal ==
    /\ Len(finished) <= 1
    /\ worker = "running" => finished = <<>>
    /\ worker = "finished" => Len(finished) = 1
    /\ \A k \in DOMAIN finished :
          IF finished[k].success
          THEN /\ finished[k].message = S("Task completed successfully")
               /\ ErrorLines = {}
               /\ Len(cmds) = Len(RunStages)
               /\ cmds[Len(cmds)] = <<S("close")>>
               /\ FinalResult(wk.seq_name) \in Elems(log)
          ELSE /\ ErrorLines # {}
               /\ \A j \in ErrorLines :
                     (\A i \in ErrorLines : j <= i) => finished[k].message = log[j].what

\* C7 (amended): every started run whose worker keeps being scheduled eventually
\* emits exactly one terminal event: success, carrying the fixed text "Task
\* completed successfully" (the artifact path is in the run's "Final result" log
\* line), when all stages completed, or failure carrying the message of the
\* first error; no success event is emitted in a run in which a command or a
\* link operation failed.
C7_OneTerminalEvent ==
    /\ []C7_Terminal
    /\ (worker = "running") ~> (worker = "finished" /\ Len(finished) = 1)

\* a run over two sets has ended with its one success event after all stages
C7_Witness ==
    /\ worker = "finished"
    /\ Complete
    /\ Len(cmds) = Len(RunStages)
    /\ Len(wk.sets) >= 2

\* C7 as stated: the success event carries the final artifact path
C7_SuccessCarriesPath ==
    \A k \in DOMAIN finished :
        finished[k].success =>
            finished[k].message = P(Join(working_dir, StackedFit(wk.seq_name)))

\* C10 as stated: the output the stack command asks for is
\* {working_dir}/{seq_name}_stacked and the reported final result is that path
C10_SamePath ==
    /\ StackReturned => stack_out = Join(working_dir, StackedName(Strip(seq_name_edit)))
    /\ \A j \in DOMAIN log :
          log[j].kind = "Final result" => StackReturned /\ log[j].what = stack_out

\* C11: while a run is active no second run is started: start_processing never
\* creates a second worker while the thread of the first is still inside run(),
\* whatever the user does (select directory, start processing, load preset)
\* while the worker runs.
C11_NoSecondRun == worker # "overlapped"

\* the configurations the controls hold in the initial states of PresetSpec
SampleConfigs ==
    [seq_name_edit : SeqTexts, bias_coeff_spin : BiasValues,
     use_flats_check : BOOLEAN, debayer_check : BOOLEAN,
     sigma_high_spin : SigmaValues, sigma_low_spin : SigmaValues,
     normalize_check : BOOLEAN, rgb_equal_check : BOOLEAN]
    \cup {[DefaultConfig EXCEPT !.bias_coeff_spin = b] : b \in 0..1000}
    \cup EditConfigs

\* a step of load_preset that read a file
PresetLoaded == \E f \in PresetPaths : preset_log' = Append(preset_log, Msg("Preset loaded", f))

\* C12: when load_preset reads the file that save_preset wrote for a
\* configuration c of the eight controls, the controls hold c afterwards, field
\* for field, whatever they held before the load.
C12_RoundTrip ==
    [][PresetLoaded =>
          \A c \in SampleConfigs : PresetData(c) = preset_file => Config' = c]_vars

\* a preset saved from sigma 10.0 / 0.1, bias 8.5, " m31 " and all boxes unticked
\* was loaded over the controls as created
C12_Witness ==
    /\ Len(preset_log) = 2
    /\ preset_log[1].kind = "Preset saved"
    /\ preset_log[2].kind = "Preset loaded"
    /\ preset_file = PresetData(OtherConfig)
    /\ Config = OtherConfig

\* combine_sequences of the current run has dealt with the set at position a
Combined(a) == wk.combined_dir # NoDir /\ wk.idx >= a

\* the set at position a of the SetList has no calibrated frame
EmptyAt(a) == pp_light[SetNum(detected_sets[a])] = {}

\* C13: a set without calibrated frames, once combine_sequences has dealt with
\* it, has caused a warning line and no link, the frame numbers of the links made
\* are 1, 2, 3, ... without a gap, and no terminal failure other than an engine
\* command's or a link operation's; when combine_sequences has returned, the
\* frames of every later set are linked under the numbers that follow those of
\* the earlier non-empty sets, the count reported is the number of links, and
\* the run has gone on to the registration stage.
C13_EmptySetSkipped ==
    \A a \in DOMAIN detected_sets :
        (Combined(a) /\ EmptyAt(a)) =>
            /\ Msg("Warning: No pp_light files found", detected_sets[a]) \in Elems(log)
            /\ \A j \in DOMAIN linked :
                  /\ linked[j].frame = j
                  /\ SubSeq(linked[j].target, 1, 3) # ProcessDir(SetNum(detected_sets[a]))
            /\ \A k \in DOMAIN finished :
                  ~finished[k].success =>
                      finished[k].message.error \in {"siril", "FileExistsError", "OSError"}
            /\ CombineReturned =>
                  /\ Msg("Created symbolic links", Len(linked)) \in Elems(log)
                  /\ \A b \in DOMAIN detected_sets : \A n \in pp_light[SetNum(detected_sets[b])] :
                        LET at == FrameCount(SubSeq(detected_sets, 1, b - 1)) + n
                        IN /\ at \in DOMAIN linked
                           /\ linked[at].target =
                                 Join(ProcessDir(SetNum(detected_sets[b])), PpLight(n))
                  /\ wk.pc # "r_cd" => Len(cmds) > 1 + Len(AllSetStages(detected_sets))

\* a run over set1 (one frame), set2 (none), set3 (one frame) has completed:
\* two links, the second to set3's frame, register and stack issued
C13_Witness ==
    /\ Complete
    /\ Len(detected_sets) = 3
    /\ ~EmptyAt(1) /\ EmptyAt(2) /\ ~EmptyAt(3)
    /\ Len(linked) = 2
    /\ linked[2].target = Join(ProcessDir(SetNum(detected_sets[3])), PpLight(1))
    /\ \E j \in DOMAIN cmds : cmds[j][1] = S("register")
    /\ FinalStacks # {}

\* the lines that warn about the flats of a set
FlatWarnings == {"Warning: No flats folder", "Warning: No master flat"}

\* the run has issued a flat command (cd to the flats folder) for the set
FlatCommands(name) ==
    {j \in DOMAIN cmds : cmds[j] = <<S("cd"), P(Join(Join(working_dir, Dir(name)), Dir("flats")))>>}

\* C14: with use-flats checked, for every set the run has completed: if the set
\* has no flats folder, or has one but no master flat after its flat processing,
\* a warning about the set was logged; no flat command was issued for a set
\* without a flats folder; and the set's lights were converted and calibrated
\* (the set is completed only after them, so the run was not aborted).
C14_FlatWarnings ==
    use_flats_check =>
        \A a \in DOMAIN detected_sets :
            LET name == detected_sets[a]
                i == SetNum(name)
            IN Msg("Completed", name) \in Elems(log) =>
                  /\ ~flats_dir[i] =>
                        /\ Msg("Warning: No flats folder", name) \in Elems(log)
                        /\ FlatCommands(name) = {}
                  /\ (flats_dir[i] /\ ~master_flat[i]) =>
                        \E j \in DOMAIN log :
                            log[j].kind \in FlatWarnings /\ log[j].what = name
                  /\ \E j \in DOMAIN cmds :
                        /\ Head2(cmds[j]) = <<S("calibrate"), S("light")>>
                        /\ cmds[j - 2] = <<S("convert"), S("light"), Out(<<Up, Dir("process")>>)>>
                        /\ cmds[j - 3] = <<S("cd"), P(Join(Join(working_dir, Dir(name)), Dir("lights")))>>

\* the entries {seq_name}_NNNNN.fit of the combined folder
CombinedEntries ==
    {l \in links : /\ Parent(l.link) = Join(working_dir, Dir("multi_night_combined"))
                   /\ "frame" \in DOMAIN l.link[Len(l.link)]
                   /\ l.link[Len(l.link)].seq = wk.seq_name}

\* C15: when combine_sequences has returned, in a first run or a later one over
\* the same working directory and sequence name, the combined folder holds as
\* many {seq_name}_NNNNN.fit entries as the sets of the SetList have calibrated
\* frames in this run; none is left from an earlier, larger run.
C15_CountMatches ==
    CombineReturned => Cardinality(CombinedEntries) = FrameCount(detected_sets)

\* C16: a link of the name about to be created that is already in the combined
\* folder from a prior run is removed and the new link made in its place without
\* error, whatever the state of the old link (also when its target is gone): no
\* run ends with the error of creating a link whose name is taken.
C16_ReplacesExisting ==
    \A k \in DOMAIN finished :
        ~finished[k].success => finished[k].message.error # "FileExistsError"

\* every set of the SetList has completed its calibration in the current run
AllCalibrated ==
    LET lines == Elems(log)
    IN \A a \in DOMAIN detected_sets : Msg("Completed", detected_sets[a]) \in lines

\* combine_sequences is entered, and a link is made, only after every set is done
C17_Entered ==
    /\ (wk.combined_dir # NoDir \/ linked # <<>>) => AllCalibrated
    /\ (FailedCommands # {} /\ ~AllCalibrated) => (linked = <<>> /\ wk.combined_dir = NoDir)

\* a step changes the links only when every set is done and no command has failed
C17_LinksKept == links' # links => (AllCalibrated /\ FailedCommands = {})

\* C17: combine_sequences is entered only when every set of the SetList has
\* completed its calibration; in a run in which a command of some set's
\* calibration failed, no step of the run creates, removes or replaces a link,
\* also not for the sets that had completed before.
C17_NoPartialCombination == []C17_Entered /\ [][C17_LinksKept]_vars

\* a second run failed in the calibration of set2 after set1 had completed: the
\* links of the first run are all still there and none was made
C17_Witness ==
    /\ runs_left = 0
    /\ worker = "finished"
    /\ \E j \in FailedCommands : Head2(log[j].what.cmd) = <<S("calibrate"), S("light")>>
    /\ Msg("Completed", "set1") \in Elems(log)
    /\ ~AllCalibrated
    /\ links # {}
    /\ linked = <<>>

\* the commands of the current run that name an absolute path, and its light
\* calibration commands
AbsoluteCds == {j \in DOMAIN cmds : cmds[j][1] = S("cd") /\ "path" \in DOMAIN cmds[j][2]}
LightCalibrations == {j \in DOMAIN cmds : Head2(cmds[j]) = <<S("calibrate"), S("light")>>}

\* C18: every command of a run is built from the values in force when the run
\* started, whatever the user does while the worker runs: all its absolute
\* paths lie in one working directory (the one the run's first command changed
\* to), and all its light calibration commands carry the same bias, flat and
\* debayer arguments up to the set's own master flat, so every set of the run is
\* calibrated with one configuration in one working directory.
C18_OneConfiguration ==
    /\ \A i, j \in AbsoluteCds : cmds[i][2].path[1] = cmds[j][2].path[1]
    /\ \A i, j \in LightCalibrations :
          /\ cmds[i][3] = cmds[j][3]
          /\ S("-cfa") \in Elems(cmds[i]) <=> S("-cfa") \in Elems(cmds[j])

\* the light calibration commands of the current run for the set: those issued
\* three commands after the cd to the set's lights folder
CalibrationsOf(name) ==
    {j \in LightCalibrations :
        j > 3 /\ cmds[j - 3] = <<S("cd"), P(Join(Join(working_dir, Dir(name)), Dir("lights")))>>}

\* C19: for a set without a flats folder no flat command is issued and the
\* light calibration command carries no -flat argument, whatever its process
\* folder holds from earlier runs; and no light calibration command carries
\* -flat when use-flats is unticked.
C19_NoFlatWithoutFlats ==
    \A a \in DOMAIN detected_sets :
        LET name == detected_sets[a]
        IN (~flats_dir[SetNum(name)] \/ ~use_flats_check) =>
              /\ FlatCommands(name) = {}
              /\ \A j \in CalibrationsOf(name) :
                    S("-flat=pp_flat_stacked") \notin Elems(cmds[j])

\* C20: the coefficient written in the -bias argument of a light calibration
\* command is the value of the bias coefficient control (held in tenths, 0.0 to
\* 100.0): the argument multiplies $OFFSET by exactly the configured number.
C20_BiasExact ==
    \A j \in LightCalibrations :
        /\ cmds[j][3].opt = "-bias"
        /\ cmds[j][3].times = "$OFFSET"
        /\ cmds[j][3].coeff * 10 = bias_coeff_spin

\* the three debayer arguments of process_set, lines 494-495
DebayerArgs == {S("-cfa"), S("-equalize_cfa"), S("-debayer")}

\* the sets process_set has returned for in this run (line 500)
CompletedSets == {name \in Elems(wk.sets) : Msg("Completed", name) \in Elems(log)}

\* C21: for each set of the run exactly one light calibration command is issued
\* (one for every set process_set has completed, at most one for any other set,
\* and never more commands than the completed sets and the one in progress);
\* that command contains -cfa, -equalize_cfa and -debayer when debayer is ticked
\* and none of them when it is not; and no other command of the run contains
\* any of the three.
C21_DebayerInCalibration ==
    /\ \A j \in DOMAIN cmds :
          LET args == Elems(cmds[j])
          IN IF j \in LightCalibrations
             THEN IF debayer_check THEN DebayerArgs \subseteq args
                  ELSE DebayerArgs \cap args = {}
             ELSE DebayerArgs \cap args = {}
    /\ \A name \in Elems(wk.sets) :
          LET n == Cardinality(CalibrationsOf(name))
          IN IF name \in CompletedSets THEN n = 1 ELSE n <= 1
    /\ Cardinality(LightCalibrations) \in
          {Cardinality(CompletedSets), Cardinality(CompletedSets) + 1}

\* two sets calibrated with the debayer arguments
C21_Witness ==
    /\ debayer_check
    /\ Cardinality(CompletedSets) = 2
    /\ Cardinality(LightCalibrations) = 2

\* C22: the progress values of the calibration stage rise by one and the same
\* amount per completed set from the setup value 5, and the value reported
\* after the last of the N >= 1 sets is 65.
C22_EvenTo65 ==
    LET n == Cardinality(CompletedSets)
    IN n >= 1 =>
          /\ Len(progress) >= n + 1
          /\ progress[1] = 5
          /\ \A a \in 1..n : progress[a + 1] - progress[a] = progress[2] - progress[1]
          /\ n = Len(wk.sets) => progress[n + 1] = 65

\* C23: whatever directories are selected and whenever runs are started, a
\* run never works on an empty SetList: once process_workflow has read the
\* SetList (it has then issued its first command and made the combined folder)
\* the list it iterates over is not empty, through calibration, combination,
\* register and stack, and no run completes over an empty list.
C23_NoRunWithoutSets ==
    /\ wk.pc \notin {"idle", "start", "setup", "done"} => wk.sets # <<>>
    /\ Complete => wk.sets # <<>>

\* C24: a run that has reported progress 100 and logged the final result path
\* ends with the success event: no failure event is emitted in a run whose
\* progress has reached 100.
C24_SuccessAfterFull ==
    (100 \in Elems(progress) /\ FinalResult(wk.seq_name) \in Elems(log)) =>
        \A j \in DOMAIN finished : finished[j].success

====
